---- MODULE Spec2Model ----
(***************************************************************************)
(* SharePointGraphql (src/sharepoint_graphql/sharepoint_graphql.py): the   *)
(* client of the Microsoft Graph API, as a state machine.                  *)
(*                                                                         *)
(* Python strings that the code inspects or concatenates are sequences of  *)
(* one-character strings; a dict (a JSON object, an instance's attributes, *)
(* a frame's locals) is a function whose DOMAIN is the set of keys         *)
(* present; opaque texts (exception messages, provider messages) are TLA+  *)
(* strings.                                                                *)
(***************************************************************************)
EXTENDS Integers, Sequences, FiniteSets, TLC

VARIABLES
    pc,         \* position of the one (synchronous) thread of control
    op,         \* the method the caller invoked last
    args,       \* the arguments of that call
    self,       \* the instance's attributes (self.__dict__)
    locals,     \* the local variables of the running method
    server,     \* the statuses the server will answer to successive requests
    log,        \* the calls and HTTP requests made during the current call
    responses,  \* the responses received during the current call
    outcome,    \* "none" | "returned" | "raised": how the last call ended
    exc,        \* the exception raised, when outcome = "raised"
    result      \* the value returned, when outcome = "returned"

vars == <<pc, op, args, self, locals, server, log, responses, outcome, exc, result>>

(***************************************************************************)
(* Bounds of the model.                                                    *)
(***************************************************************************)
MaxSegs == 3        \* path segments of a site URL given to the conversion
MaxPages == 3       \* responses the provider serves to one list_files call
MaxPageLen == 2     \* entries in one page of a listing

(***************************************************************************)
(* String helpers (str.startswith, str.split, str.strip, concatenation).   *)
(***************************************************************************)
StartsWith(s, p) == Len(s) >= Len(p) /\ SubSeq(s, 1, Len(p)) = p

RECURSIVE Split(_, _)
Split(s, c) ==
    IF \A i \in 1..Len(s) : s[i] # c
    THEN <<s>>
    ELSE LET i == CHOOSE k \in 1..Len(s) :
                      s[k] = c /\ \A j \in 1..(k - 1) : s[j] # c
         IN  <<SubSeq(s, 1, i - 1)>> \o Split(SubSeq(s, i + 1, Len(s)), c)

RECURSIVE Strip(_, _)
Strip(s, c) ==
    IF s = <<>> THEN s
    ELSE IF s[1] = c THEN Strip(Tail(s), c)
    ELSE IF s[Len(s)] = c THEN Strip(SubSeq(s, 1, Len(s) - 1), c)
    ELSE s

RECURSIVE Join(_)
Join(ss) == IF ss = <<>> THEN <<>> ELSE Head(ss) \o Join(Tail(ss))

(***************************************************************************)
(* String literals of the source.                                          *)
(***************************************************************************)
GRAPH_BASE_URL == <<"h","t","t","p","s",":","/","/","g","r","a","p","h",".","m","i","c","r","o","s","o","f","t",".","c","o","m","/","v","1",".","0">>
HttpsPrefix == <<"h","t","t","p","s",":","/","/">>
AuthorityBase == <<"h","t","t","p","s",":","/","/","l","o","g","i","n",".","m","i","c","r","o","s","o","f","t","o","n","l","i","n","e",".","c","o","m","/">>
Bearer == <<"B","e","a","r","e","r"," ">>
SitesSlash == <<"/","s","i","t","e","s","/">>
DriveSlash == <<"/","d","r","i","v","e","/">>
DrivesSlash == <<"/","d","r","i","v","e","s","/">>
RootColon == <<"/","r","o","o","t",":","/">>
ColonChildren == <<":","/","c","h","i","l","d","r","e","n">>
ColonSlash == <<":","/">>
Slash == <<"/">>

(***************************************************************************)
(* Outcomes of a call: a returned value or a raised exception.             *)
(***************************************************************************)
NoResult == "none"
NoExc == [type |-> "none", msg |-> ""]
Return(v) == [ok |-> TRUE, value |-> v, exc |-> NoExc]
Raise(t, m) == [ok |-> FALSE, value |-> NoResult, exc |-> [type |-> t, msg |-> m]]

SetAttr(obj, k, v) == (k :> v) @@ obj
Event(o, u) == [op |-> o, url |-> u]

(***************************************************************************)
(* _convert_site_url_to_graph_format (static, pure).  parts[i] of the      *)
(* source is parts[i + 1] here; an index past the end is an IndexError.    *)
(***************************************************************************)
_convert_no_scheme_check(site_url) ==
    LET parts == Split(site_url, "/")
    IN  IF Len(parts) < 5
        THEN Raise("IndexError", "list index out of range")
        ELSE Return(parts[3] \o ColonSlash \o parts[4] \o Slash \o parts[5] \o ColonSlash)

_convert_site_url_to_graph_format(site_url) ==
    IF ~StartsWith(site_url, HttpsPrefix)
    THEN Raise("ConnectionError", "Invalid URL format. URL must start with 'https://'.")
    ELSE LET parts == Split(site_url, "/")
         IN  IF Len(parts) < 5
             THEN Raise("IndexError", "list index out of range")
             ELSE Return(parts[3] \o ColonSlash \o parts[4] \o Slash \o parts[5] \o ColonSlash)

(***************************************************************************)
(* The conversion as an operation of its own: a static method, applied to  *)
(* site URLs built from a scheme, a host and up to MaxSegs path segments.  *)
(***************************************************************************)
Schemes == { HttpsPrefix,
             <<"h","t","t","p",":","/","/">>,
             <<"h","t","t","p","s",":","/">>,
             <<"H","T","T","P","S",":","/","/">>,
             <<>> }
Hosts == { <<"h">>, <<"h",".","i","o">> }
Segments == { <<"s","i","t","e","s">>, <<"a">>, <<"b">>, <<>> }
SegSeqs(n) == UNION { [1..k -> Segments] : k \in 0..n }
PathOf(segs) == Join([i \in 1..Len(segs) |-> Slash \o segs[i]])
ConvertInputs == { sch \o h \o PathOf(p) : sch \in Schemes, h \in Hosts, p \in SegSeqs(MaxSegs) }

NoCall ==
    /\ self = <<>>
    /\ locals = <<>>
    /\ server = <<>>
    /\ log = <<>>
    /\ responses = <<>>
    /\ outcome = "none"
    /\ exc = NoExc
    /\ result = NoResult

ConvertInit ==
    /\ pc = "convert_call"
    /\ op = "_convert_site_url_to_graph_format"
    /\ args \in { ("site_url" :> u) : u \in ConvertInputs }
    /\ NoCall

ConvertApply ==
    /\ pc = "convert_call"
    /\ LET r == _convert_site_url_to_graph_format(args.site_url)
       IN  /\ outcome' = IF r.ok THEN "returned" ELSE "raised"
           /\ exc' = r.exc
           /\ result' = r.value
    /\ pc' = "convert_done"
    /\ UNCHANGED <<op, args, self, locals, server, log, responses>>

ConvertNext == ConvertApply

SpecConvert == ConvertInit /\ [][ConvertNext]_vars

(***************************************************************************)
(* __init__: token, site URL conversion, site id, drive id.                *)
(***************************************************************************)
Tenant == <<"t">>
ClientId == <<"c">>
ClientSecret == <<"x">>
CtorSiteUrls ==
    { HttpsPrefix \o <<"h",".","i","o">> \o SitesSlash \o <<"a">>,
      HttpsPrefix \o <<"h",".","i","o">> \o SitesSlash \o <<"a","/","b">>,
      <<"h","t","t","p",":","/","/">> \o <<"h",".","i","o">> \o SitesSlash \o <<"a">>,
      HttpsPrefix \o <<"h",".","i","o">> }

\* what msal's acquire_token_for_client answers: a token, or an error report
TokenResponses ==
    { ("access_token" :> <<"k">>) @@ ("token_type" :> "Bearer"),
      ("error" :> "invalid_client") @@ ("error_description" :> "AADSTS7000215") }

ErrorBodies ==
    { ("error" :> (("code" :> "InvalidRequest") @@ ("message" :> "Invalid request"))),
      ("error" :> ("message" :> "Access denied")),
      ("error" :> ("code" :> "generalException")) }
EmptyBody == <<>>
IdStatuses == {200, 400}
SiteBodies == { ("id" :> <<"s">>) } \cup ErrorBodies \cup { EmptyBody }
DriveBodies ==
    { ("id" :> <<"d">>), ("id" :> <<"e">>) } \cup ErrorBodies \cup { EmptyBody }
    \cup { ("id" :> <<"d">>) @@ ("error" :> ("message" :> "Access denied")) }
SiteResponses == [status : IdStatuses, body : SiteBodies]
DriveResponses == [status : IdStatuses, body : DriveBodies]

_get_token(token) ==
    IF "access_token" \in DOMAIN token
    THEN Return(token["access_token"])
    ELSE Raise("KeyError", "'access_token'")

\* lines 53-56: the try/except around _get_token
init_token_uncaught(token) == _get_token(token)

init_token(token) ==
    LET r == _get_token(token)
    IN  IF ~r.ok /\ r.exc.type = "KeyError"
        THEN Raise("SecurityError", "Access token not found, please check your credentials")
        ELSE r

_get_site_id_url(site_url) == GRAPH_BASE_URL \o SitesSlash \o site_url

_get_site_id(res) ==
    IF "id" \in DOMAIN res THEN Return(res["id"]) ELSE Raise("KeyError", "'id'")

_get_document_id_url(site_id) == GRAPH_BASE_URL \o SitesSlash \o site_id \o DriveSlash

_get_document_id_by_status(resp) ==
    IF resp.status # 200
    THEN IF "error" \in DOMAIN resp.body /\ "message" \in DOMAIN resp.body["error"]
         THEN Raise("ConnectionError", resp.body["error"]["message"])
         ELSE Raise("KeyError", "'message'")
    ELSE IF "id" \in DOMAIN resp.body THEN Return(resp.body["id"]) ELSE Raise("KeyError", "'id'")

\* resp.body is requests.get(...).json(); the status is never read
_get_document_id(resp) ==
    LET res == resp.body
    IN  IF "error" \in DOMAIN res
        THEN IF "message" \in DOMAIN res["error"]
             THEN Raise("ConnectionError", res["error"]["message"])
             ELSE Raise("KeyError", "'message'")
        ELSE IF "id" \in DOMAIN res THEN Return(res["id"]) ELSE Raise("KeyError", "'id'")

\* an exception leaves __init__: the caller gets no instance
InitFail(e) ==
    /\ pc' = "no_client"
    /\ outcome' = "raised"
    /\ exc' = e
    /\ UNCHANGED <<self, result>>

Init ==
    /\ pc = "init_token"
    /\ op = "__init__"
    /\ args \in { [site_url |-> u, tenant_id |-> Tenant, client_id |-> ClientId,
                   client_secret |-> ClientSecret] : u \in CtorSiteUrls }
    /\ NoCall

InitGetToken ==
    /\ pc = "init_token"
    /\ \E token \in TokenResponses :
        LET r == init_token(token)
        IN  /\ log' = log \o << Event("_get_token", <<>>),
                                Event("acquire_token_for_client", AuthorityBase \o args.tenant_id) >>
            /\ responses' = Append(responses, token)
            /\ IF r.ok
               THEN /\ self' = SetAttr(SetAttr(self, "access_token", r.value),
                                       "headers", ("Authorization" :> (Bearer \o r.value)))
                    /\ pc' = "init_convert"
                    /\ UNCHANGED <<outcome, exc, result>>
               ELSE InitFail(r.exc)
    /\ UNCHANGED <<op, args, locals, server>>

InitConvertSwallow ==
    /\ pc = "init_convert"
    /\ LET r == _convert_site_url_to_graph_format(args.site_url)
       IN  /\ log' = Append(log, Event("_convert_site_url_to_graph_format", <<>>))
           /\ self' = SetAttr(self, "site_url", IF r.ok THEN r.value ELSE <<>>)
           /\ pc' = "init_site"
           /\ UNCHANGED <<outcome, exc, result>>
    /\ UNCHANGED <<op, args, locals, server, responses>>

InitConvert ==
    /\ pc = "init_convert"
    /\ LET r == _convert_site_url_to_graph_format(args.site_url)
       IN  /\ log' = Append(log, Event("_convert_site_url_to_graph_format", <<>>))
           /\ IF r.ok
              THEN /\ self' = SetAttr(self, "site_url", r.value)
                   /\ pc' = "init_site"
                   /\ UNCHANGED <<outcome, exc, result>>
              ELSE InitFail(r.exc)
    /\ UNCHANGED <<op, args, locals, server, responses>>

InitGetSiteId ==
    /\ pc = "init_site"
    /\ \E resp \in SiteResponses :
        LET r == _get_site_id(resp.body)
        IN  /\ log' = log \o << Event("_get_site_id", <<>>),
                                Event("GET", _get_site_id_url(self["site_url"])) >>
            /\ responses' = Append(responses, resp)
            /\ IF r.ok
               THEN /\ self' = SetAttr(self, "site_id", r.value)
                    /\ pc' = "init_drive"
                    /\ UNCHANGED <<outcome, exc, result>>
               ELSE InitFail(r.exc)
    /\ UNCHANGED <<op, args, locals, server>>

InitGetDocumentId ==
    /\ pc = "init_drive"
    /\ \E resp \in DriveResponses :
        LET r == _get_document_id(resp)
        IN  /\ log' = log \o << Event("_get_document_id", <<>>),
                                Event("GET", _get_document_id_url(self["site_id"])) >>
            /\ responses' = Append(responses, resp)
            /\ IF r.ok
               THEN /\ self' = SetAttr(self, "documents_id", r.value)
                    /\ pc' = "done"
                    /\ outcome' = "returned"
                    /\ result' = "self"
                    /\ UNCHANGED exc
               ELSE InitFail(r.exc)
    /\ UNCHANGED <<op, args, locals, server>>

(***************************************************************************)
(* A call ends in "done" with its outcome.  The caller then goes on with   *)
(* the instance ("idle"), and from there makes its next call; the frame's  *)
(* locals go with the frame.                                               *)
(***************************************************************************)
CallerContinues ==
    /\ pc = "done"
    /\ pc' = "idle"
    /\ op' = "none"
    /\ args' = <<>>
    /\ locals' = <<>>
    /\ server' = <<>>
    /\ log' = <<>>
    /\ responses' = <<>>
    /\ outcome' = "none"
    /\ exc' = NoExc
    /\ result' = NoResult
    /\ UNCHANGED self

BeginCall(name, a, lcl, script) ==
    /\ pc = "idle"
    /\ op' = name
    /\ args' = a
    /\ locals' = lcl
    /\ server' = script
    /\ log' = <<>>
    /\ responses' = <<>>
    /\ outcome' = "none"
    /\ exc' = NoExc
    /\ result' = NoResult
    /\ UNCHANGED self

\* requests.Response.raise_for_status: HTTPError for a 4xx or 5xx status
raise_for_status(resp) ==
    IF 400 <= resp.status /\ resp.status < 500 THEN Raise("HTTPError", "Client Error")
    ELSE IF 500 <= resp.status /\ resp.status < 600 THEN Raise("HTTPError", "Server Error")
    ELSE Return("None")

(***************************************************************************)
(* list_files                                                              *)
(***************************************************************************)
FolderPaths == { <<"/","D","/","x","/">> }
Entries == { [name |-> "file1.txt", id |-> "1"], [name |-> "file2.txt", id |-> "2"] }
\* a page lists distinct children, at most MaxPageLen of them
PageValues ==
    UNION { { v \in [1..k -> Entries] : \A i, j \in 1..k : v[i] = v[j] => i = j } : k \in 0..MaxPageLen }
NextLinks == { GRAPH_BASE_URL \o <<"/","n","1">>, GRAPH_BASE_URL \o <<"/","n","2">> }
ListBodies ==
    { ("value" :> v) : v \in PageValues }
    \cup { ("value" :> v) @@ ("@odata.nextLink" :> l) : v \in PageValues, l \in NextLinks }
    \cup { ("@odata.nextLink" :> l) : l \in NextLinks }
    \cup { EmptyBody }
\* 300: a redirection that requests does not follow (it names no Location)
ListResponses ==
    [status : {200}, body : ListBodies]
    \cup [status : {300},
           body : { ("value" :> v) : v \in PageValues }
                  \cup { ("value" :> <<>>) @@ ("@odata.nextLink" :> l) : l \in NextLinks }]
    \cup [status : {404, 500}, body : { ("error" :> ("message" :> "Invalid request")) }]

list_files_url(documents_id, folder_path) ==
    GRAPH_BASE_URL \o DrivesSlash \o documents_id \o RootColon \o folder_path \o ColonChildren

\* one pass of the while loop with the response to requests.get(url): what
\* the pass leaves ("loop" with the new locals, "return" or "raise")
list_files_pass_no_extend(lcl, resp) ==
    LET st == raise_for_status(resp)
        data == resp.body
        files == IF "value" \in DOMAIN data THEN data["value"] ELSE <<>>
    IN  IF ~st.ok
        THEN [next |-> "raise", locals |-> <<>>, out |-> st]
        ELSE IF "@odata.nextLink" \in DOMAIN data
        THEN [next |-> "loop",
              locals |-> [lcl EXCEPT !["url"] = data["@odata.nextLink"], !["files"] = files],
              out |-> Return(NoResult)]
        ELSE [next |-> "return", locals |-> <<>>, out |-> Return(files)]

list_files_pass_no_status(lcl, resp) ==
    LET data == resp.body
        files == lcl["files"] \o (IF "value" \in DOMAIN data THEN data["value"] ELSE <<>>)
    IN  IF "@odata.nextLink" \in DOMAIN data
        THEN [next |-> "loop",
              locals |-> [lcl EXCEPT !["url"] = data["@odata.nextLink"], !["files"] = files],
              out |-> Return(NoResult)]
        ELSE [next |-> "return", locals |-> <<>>, out |-> Return(files)]

list_files_pass(lcl, resp) ==
    LET st == raise_for_status(resp)
        data == resp.body
        files == lcl["files"] \o (IF "value" \in DOMAIN data THEN data["value"] ELSE <<>>)
    IN  IF ~st.ok
        THEN [next |-> "raise", locals |-> <<>>, out |-> st]
        ELSE IF "@odata.nextLink" \in DOMAIN data
        THEN [next |-> "loop",
              locals |-> [lcl EXCEPT !["url"] = data["@odata.nextLink"], !["files"] = files],
              out |-> Return(NoResult)]
        ELSE [next |-> "return", locals |-> <<>>, out |-> Return(files)]

ListFilesCall ==
    \E folder \in FolderPaths :
        LET folder_path == Strip(folder, "/")
        IN  /\ BeginCall("list_files", ("folder_path" :> folder),
                         [folder_path |-> folder_path,
                          url |-> list_files_url(self["documents_id"], folder_path),
                          files |-> <<>>],
                         <<>>)
            /\ pc' = "list_loop"

ListFilesGet ==
    /\ pc = "list_loop"
    /\ Len(responses) < MaxPages
    /\ \E resp \in ListResponses :
        LET r == list_files_pass(locals, resp)
        IN  /\ log' = Append(log, Event("GET", locals["url"]))
            /\ responses' = Append(responses, resp)
            /\ locals' = r.locals
            /\ pc' = IF r.next = "loop" THEN "list_loop" ELSE "done"
            /\ outcome' = CASE r.next = "loop" -> "none"
                            [] r.next = "return" -> "returned"
                            [] OTHER -> "raised"
            /\ exc' = r.out.exc
            /\ result' = r.out.value
    /\ UNCHANGED <<op, args, self, server>>

(***************************************************************************)
(* _retry_request                                                          *)
(***************************************************************************)
\* the names lines 1-9 bind in the module (the imports), and the classes
ModuleGlobals ==
    { "PathLike", "StringIO", "Iterator", "urlparse", "requests", "msal", "json", "os",
      "ConnectionError", "SecurityError", "TransactionError", "SharePointGraphql" }
RetryCount == 3
RetryStatuses == {200, 404, 500, 503}
RetryUrls == { GRAPH_BASE_URL \o SitesSlash \o <<"s">> \o <<"/","d","r","i","v","e","/","r","o","o","t",":","/","D">> }

RetryRequestCall ==
    \E script \in [1..RetryCount -> RetryStatuses], u \in RetryUrls :
        /\ BeginCall("_retry_request", [method |-> "GET", url |-> u], ("attempt" :> 0), script)
        /\ pc' = "retry_loop"

\* one pass of the for loop, and what follows the loop after its last pass
RetryIteration ==
    /\ pc = "retry_loop"
    /\ LET i == locals["attempt"]
           resp == [status |-> server[i + 1], body |-> EmptyBody]
           st == raise_for_status(resp)
           End(o) == /\ pc' = "done"
                     /\ locals' = <<>>
                     /\ outcome' = IF o.ok THEN "returned" ELSE "raised"
                     /\ exc' = o.exc
                     /\ result' = o.value
       IN  /\ log' = Append(log, Event(args.method, args.url))
           /\ responses' = Append(responses, resp)
           /\ IF resp.status < 500
              THEN End(Return(resp))
              ELSE IF "time" \notin ModuleGlobals
              THEN End(Raise("NameError", "name 'time' is not defined"))
              ELSE IF i + 1 < RetryCount
              THEN /\ locals' = ("attempt" :> (i + 1)) @@ ("response" :> resp)
                   /\ pc' = "retry_loop"
                   /\ UNCHANGED <<outcome, exc, result>>
              ELSE End(st)
    /\ UNCHANGED <<op, args, self, server>>

(***************************************************************************)
(* _build_graph_url                                                        *)
(***************************************************************************)
DriveRootColon == <<"/","d","r","i","v","e","/","r","o","o","t",":","/">>
Content == <<"c","o","n","t","e","n","t">>

RECURSIVE LStrip(_, _)
LStrip(s, c) == IF s # <<>> /\ s[1] = c THEN LStrip(Tail(s), c) ELSE s

_build_graph_url_lstrip(site_id, remote_path, action) ==
    LET p == LStrip(remote_path, "/")
    IN  IF action = Content
        THEN GRAPH_BASE_URL \o SitesSlash \o site_id \o DriveRootColon \o p \o ColonSlash \o action
        ELSE GRAPH_BASE_URL \o SitesSlash \o site_id \o DriveRootColon \o p

_build_graph_url(site_id, remote_path, action) ==
    LET p == Strip(remote_path, "/")
    IN  IF action = Content
        THEN GRAPH_BASE_URL \o SitesSlash \o site_id \o DriveRootColon \o p \o ColonSlash \o action
        ELSE GRAPH_BASE_URL \o SitesSlash \o site_id \o DriveRootColon \o p

(***************************************************************************)
(* The URLs built from a relative path, as an operation of its own: the    *)
(* path is a core between 0..MaxSlashes leading and trailing separators.   *)
(***************************************************************************)
MaxSlashes == 2
Slashes(n) == [i \in 1..n |-> "/"]
PathCores == { <<"D","/","x">>, <<"D">>, <<"a","/","/","b">>, <<"D","/","x",".","t">>, <<>> }
PathInputs == { Slashes(k) \o c \o Slashes(m) : k \in 0..MaxSlashes, m \in 0..MaxSlashes, c \in PathCores }
\* the attributes of a constructed instance
Instance(site_id, documents_id) ==
    [access_token |-> <<"k">>, headers |-> ("Authorization" :> (Bearer \o <<"k">>)),
     site_url |-> <<"h",".","i","o",":","/","s","i","t","e","s","/","a",":","/">>,
     site_id |-> site_id, documents_id |-> documents_id]

PathInit ==
    /\ pc = "path_call"
    /\ op = "_build_graph_url"
    /\ args \in [remote_path : PathInputs, action : {<<>>, Content}]
    /\ self \in { Instance(s, <<"d">>) : s \in { <<"s">>, <<"t">> } }
    /\ locals = <<>>
    /\ server = <<>>
    /\ log = <<>>
    /\ responses = <<>>
    /\ outcome = "none"
    /\ exc = NoExc
    /\ result = NoResult

PathApply ==
    /\ pc = "path_call"
    /\ pc' = "path_done"
    /\ outcome' = "returned"
    /\ result' = [url |-> _build_graph_url(self["site_id"], args.remote_path, args.action),
                  children |-> list_files_url(self["documents_id"], Strip(args.remote_path, "/"))]
    /\ UNCHANGED <<op, args, self, locals, server, log, responses, exc>>

PathNext == PathApply

SpecPath == PathInit /\ [][PathNext]_vars

(***************************************************************************)
(* One call of requests.<verb>: the answer is a response with a status, or *)
(* an exception of requests raised because no response arrived.           *)
(***************************************************************************)
TransportErrors == { "requests.ConnectionError", "requests.Timeout" }
Responded(st, body) == [raised |-> "none", status |-> st, body |-> body]
Failed(t) == [raised |-> t, status |-> 0, body |-> EmptyBody]
request(ans) == IF ans.raised = "none" THEN Return(ans) ELSE Raise(ans.raised, "no response")
\* the request as the log keeps it: verb, URL and keyword arguments
Request(verb, url, kw) == [op |-> verb, url |-> url, kw |-> kw]
EndCall(o) ==
    /\ pc' = "done"
    /\ outcome' = IF o.ok THEN "returned" ELSE "raised"
    /\ exc' = o.exc
    /\ result' = o.value

(***************************************************************************)
(* move_file                                                               *)
(***************************************************************************)
\* str.rfind: the last index of c in s, 0 when there is none
RECURSIVE RFind(_, _)
RFind(s, c) == IF s = <<>> THEN 0
               ELSE IF s[Len(s)] = c THEN Len(s)
               ELSE RFind(SubSeq(s, 1, Len(s) - 1), c)
RECURSIVE RStrip(_, _)
RStrip(s, c) == IF s # <<>> /\ s[Len(s)] = c THEN RStrip(SubSeq(s, 1, Len(s) - 1), c) ELSE s
\* posixpath.basename and posixpath.dirname
basename(p) == SubSeq(p, RFind(p, "/") + 1, Len(p))
dirname(p) ==
    LET head == SubSeq(p, 1, RFind(p, "/"))
    IN  IF head # <<>> /\ head # Slashes(Len(head)) THEN RStrip(head, "/") ELSE head

DrivesNoSlash == <<"d","r","i","v","e","s","/">>

_build_move_destination_payload_swapped(documents_id, remote_des_path) ==
    LET new_filename == dirname(remote_des_path)
        path == basename(remote_des_path)
        path_reference == DrivesNoSlash \o documents_id \o RootColon \o path
    IN  [parentReference |-> [path |-> path_reference], name |-> new_filename]

_build_move_destination_payload(documents_id, remote_des_path) ==
    LET new_filename == basename(remote_des_path)
        path == dirname(remote_des_path)
        path_reference == DrivesNoSlash \o documents_id \o RootColon \o path
    IN  [parentReference |-> [path |-> path_reference], name |-> new_filename]

_execute_move_request(ans) ==
    LET r == request(ans)
    IN  IF r.ok THEN raise_for_status(ans) ELSE r

\* the try statement of move_file around _execute_move_request
move_file(ans) ==
    LET r == _execute_move_request(ans)
    IN  IF ~r.ok /\ r.exc.type = "HTTPError"
        THEN Raise("TransactionError", <<"Error moving file: ", r.exc.msg>>)
        ELSE r

MoveSources == { <<"D","/","a">>, <<"/","D","/","a","/">> }
MoveParents == { <<"D">>, <<"D","/","F">> }
MoveNames == { <<"t">>, <<"t",".","x">> }
MoveDestinations ==
    { p \o Slash \o n : p \in MoveParents, n \in MoveNames } \cup { <<"t">>, <<"/","t">> }
MoveAnswers ==
    { Responded(st, EmptyBody) : st \in {200, 404, 500} } \cup { Failed(t) : t \in TransportErrors }

MoveFileCall ==
    \E src \in MoveSources, des \in MoveDestinations :
        /\ BeginCall("move_file", [remote_src_path |-> src, remote_des_path |-> des],
                     [payload |-> _build_move_destination_payload(self["documents_id"], des)],
                     <<>>)
        /\ pc' = "move_patch"

MoveFilePatch ==
    /\ pc = "move_patch"
    /\ \E ans \in MoveAnswers :
        /\ log' = Append(log, Request("PATCH",
                                      _build_graph_url(self["site_id"], args.remote_src_path, <<>>),
                                      [headers |-> self["headers"], stream |-> TRUE,
                                       json |-> locals.payload]))
        /\ responses' = Append(responses, ans)
        /\ EndCall(move_file(ans))
    /\ UNCHANGED <<op, args, self, locals, server>>

(***************************************************************************)
(* delete_file_by_relative_path                                            *)
(***************************************************************************)
RemotePaths == { <<"D","/","a">>, <<"/","D","/","a","/">> }
DeleteAnswers ==
    { Responded(st, EmptyBody) : st \in {204, 404, 500} } \cup { Failed(t) : t \in TransportErrors }

\* the try statement: requests.delete, raise_for_status, except HTTPError
delete_file_by_relative_path(ans) ==
    LET r == request(ans)
        st == IF r.ok THEN raise_for_status(ans) ELSE r
    IN  IF ~st.ok /\ st.exc.type = "HTTPError"
        THEN Raise("TransactionError", <<"Error deleting file: ", st.exc.msg>>)
        ELSE st

DeleteFileCall ==
    \E p \in RemotePaths :
        /\ BeginCall("delete_file_by_relative_path", [remote_path |-> p], <<>>, <<>>)
        /\ pc' = "delete_request"

DeleteFileRequestRederiving ==
    /\ pc = "delete_request"
    /\ \E ans \in DeleteAnswers, resp \in DriveResponses :
        LET r == _get_document_id(resp)
        IN  /\ log' = log \o << Request("DELETE",
                                        _build_graph_url(self["site_id"], args.remote_path, <<>>),
                                        [headers |-> self["headers"]]),
                                Event("GET", _get_document_id_url(self["site_id"])) >>
            /\ responses' = Append(responses, ans)
            /\ self' = IF r.ok THEN SetAttr(self, "documents_id", r.value) ELSE self
            /\ EndCall(delete_file_by_relative_path(ans))
    /\ UNCHANGED <<op, args, locals, server>>

DeleteFileRequest ==
    /\ pc = "delete_request"
    /\ \E ans \in DeleteAnswers :
        /\ log' = Append(log, Request("DELETE",
                                      _build_graph_url(self["site_id"], args.remote_path, <<>>),
                                      [headers |-> self["headers"]]))
        /\ responses' = Append(responses, ans)
        /\ EndCall(delete_file_by_relative_path(ans))
    /\ UNCHANGED <<op, args, self, locals, server>>

(***************************************************************************)
(* upload_file_by_relative_path                                            *)
(***************************************************************************)
\* the local file as open() finds it: absent, or present with its bytes
LocalFiles ==
    { [exists |-> FALSE, data |-> <<>>] }
    \cup { [exists |-> TRUE, data |-> d] : d \in { <<>>, <<"b1">>, <<"b1","b2">> } }
UploadLocalPaths == { <<"/","t","/","f">> }
UploadAnswers ==
    { Responded(st, EmptyBody) : st \in {201, 404, 500} } \cup { Failed(t) : t \in TransportErrors }
Open(path, mode) == [op |-> "open", url |-> path, kw |-> [mode |-> mode]]

upload_file_wrapped(file, ans) ==
    IF ~file.exists THEN Raise("FileNotFoundError", "No such file or directory")
    ELSE LET r == request(ans)
             st == IF r.ok THEN raise_for_status(ans) ELSE r
         IN  IF st.ok THEN st ELSE Raise("TransactionError", <<"Error uploading file: ", st.exc.msg>>)

\* open(local_path, "rb"), requests.put inside the with block, then
\* raise_for_status; no try statement
upload_file_by_relative_path(file, ans) ==
    IF ~file.exists THEN Raise("FileNotFoundError", "No such file or directory")
    ELSE LET r == request(ans)
         IN  IF r.ok THEN raise_for_status(ans) ELSE r

UploadFileCall ==
    \E p \in RemotePaths, l \in UploadLocalPaths, file \in LocalFiles :
        /\ BeginCall("upload_file_by_relative_path", [remote_path |-> p, local_path |-> l],
                     <<>>, [file |-> file])
        /\ pc' = "upload_open"

UploadFilePut ==
    /\ pc = "upload_open"
    /\ \E ans \in UploadAnswers :
        /\ IF server.file.exists
           THEN /\ log' = log \o << Open(args.local_path, "rb"),
                                    Request("PUT",
                                            _build_graph_url(self["site_id"], args.remote_path, Content),
                                            [headers |-> self["headers"], stream |-> TRUE,
                                             data |-> server.file.data]) >>
                /\ responses' = Append(responses, ans)
           ELSE /\ log' = Append(log, Open(args.local_path, "rb"))
                /\ UNCHANGED responses
        /\ EndCall(upload_file_by_relative_path(server.file, ans))
    /\ UNCHANGED <<op, args, self, locals, server>>

(***************************************************************************)
(* is_valid_url                                                            *)
(***************************************************************************)
DOWNLOAD_URL_KEY == "@microsoft.graph.downloadUrl"
TrustedDomain == <<"s","h","a","r","e","p","o","i","n","t",".","c","o","m">>
\* str.find: the first index of c in s, 0 when there is none
RECURSIVE Find(_, _)
Find(s, c) == IF s = <<>> THEN 0
              ELSE IF s[1] = c THEN 1
              ELSE LET i == Find(Tail(s), c) IN IF i = 0 THEN 0 ELSE i + 1
EndsWith(s, t) == Len(s) >= Len(t) /\ SubSeq(s, Len(s) - Len(t) + 1, Len(s)) = t
\* the first index in s of a character of cs, 0 when there is none
RECURSIVE FindAny(_, _)
FindAny(s, cs) == IF s = <<>> THEN 0
                  ELSE IF s[1] \in cs THEN 1
                  ELSE LET i == FindAny(Tail(s), cs) IN IF i = 0 THEN 0 ELSE i + 1
\* urllib.parse.urlparse: the scheme is what stands before the first ':'
\* when something does, and the netloc what stands between a following
\* '//' and the next '/', '?' or '#'
urlparse(url) ==
    LET i == Find(url, ":")
        hasScheme == i > 1
        rest == IF hasScheme THEN SubSeq(url, i + 1, Len(url)) ELSE url
        hasNetloc == StartsWith(rest, <<"/","/">>)
        after == IF hasNetloc THEN SubSeq(rest, 3, Len(rest)) ELSE <<>>
        j == FindAny(after, {"/", "?", "#"})
    IN  [scheme |-> IF hasScheme THEN SubSeq(url, 1, i - 1) ELSE <<>>,
         netloc |-> IF j = 0 THEN after ELSE SubSeq(after, 1, j - 1)]
is_valid_url(url) ==
    LET parsed_url == urlparse(url)
    IN  /\ parsed_url.scheme \in { <<"h","t","t","p">>, <<"h","t","t","p","s">> }
        /\ EndsWith(parsed_url.netloc, TrustedDomain)

(***************************************************************************)
(* download_file                                                           *)
(***************************************************************************)
DownloadUrls ==
    { <<"h","t","t","p","s",":","/","/","a",".","s","h","a","r","e","p","o","i","n","t",".","c","o","m","/","f">>,
      <<"h","t","t","p","s",":","/","/","e","v","i","l",".","i","o","/","f">>,
      <<"h","t","t","p","s",":","/","/","x","s","h","a","r","e","p","o","i","n","t",".","c","o","m","/","f">>,
      <<"f","t","p",":","/","/","a",".","s","h","a","r","e","p","o","i","n","t",".","c","o","m","/","f">> }
OutputPaths == { <<"/","t","/","o">>, <<"o">> }
Cwd == <<"/","w">>
\* the chunks response.iter_content yields, empty ones included
ChunkSeqs == { <<>>, <<"c1">>, <<"c1", "", "c2">>, <<"", "c1">> }
DownloadAnswers ==
    { Responded(200, ch) : ch \in ChunkSeqs }
    \cup { Responded(st, <<"error page">>) : st \in {404, 500} }
    \cup { Failed(t) : t \in TransportErrors }
FsCall(o, path) == [op |-> o, url |-> path, kw |-> <<>>]
Write(path, chunk) == [op |-> "write", url |-> path, kw |-> [data |-> chunk]]
NonEmpty(chunk) == chunk # ""

_resolve_absolute_path(output_path) ==
    IF StartsWith(output_path, Slash) THEN output_path ELSE Cwd \o Slash \o output_path
\* the calls _ensure_directory_exists makes, given what os.path.exists says
_ensure_directory_exists(output_path, dir_exists) ==
    LET output_dir == dirname(output_path)
    IN  IF ~dir_exists
        THEN << FsCall("exists", output_dir), FsCall("makedirs", output_dir) >>
        ELSE << FsCall("exists", output_dir) >>
_setup_local_directory(output_path, dir_exists) ==
    LET path == _resolve_absolute_path(output_path)
    IN  [path |-> path, log |-> _ensure_directory_exists(path, dir_exists)]

download_file_setup_first(url, output_path, ans, dir_exists) ==
    LET get == Request("GET", url, [stream |-> TRUE])
        r == request(ans)
        st == IF r.ok THEN raise_for_status(ans) ELSE r
        setup == _setup_local_directory(output_path, dir_exists)
        chunks == IF st.ok THEN SelectSeq(ans.body, NonEmpty) ELSE <<>>
    IN  IF ~st.ok
        THEN [out |-> IF st.exc.type = "HTTPError"
                      THEN Raise("TransactionError", <<"Error downloading file: ", st.exc.msg>>)
                      ELSE st,
              log |-> setup.log \o << Open(setup.path, "wb"), get >>]
        ELSE [out |-> Return("None"),
              log |-> setup.log \o << Open(setup.path, "wb"), get >>
                      \o [i \in 1..Len(chunks) |-> Write(setup.path, chunks[i])]]

\* what download_file ends with and the calls it makes, given the answer to
\* its GET and what os.path.exists says of the output directory
download_file(url, output_path, ans, dir_exists) ==
    LET get == Request("GET", url, [stream |-> TRUE])
        r == request(ans)
        st == IF r.ok THEN raise_for_status(ans) ELSE r
        setup == _setup_local_directory(output_path, dir_exists)
        chunks == IF st.ok THEN SelectSeq(ans.body, NonEmpty) ELSE <<>>
    IN  IF ~st.ok
        THEN [out |-> IF st.exc.type = "HTTPError"
                      THEN Raise("TransactionError", <<"Error downloading file: ", st.exc.msg>>)
                      ELSE st,
              log |-> << get >>]
        ELSE [out |-> Return("None"),
              log |-> << get >> \o setup.log \o << Open(setup.path, "wb") >>
                      \o [i \in 1..Len(chunks) |-> Write(setup.path, chunks[i])]]

DownloadFileCall ==
    \E url \in DownloadUrls, output_path \in OutputPaths, dir_exists \in BOOLEAN :
        /\ BeginCall("download_file", [url |-> url, output_path |-> output_path],
                     [url |-> url, output_path |-> output_path],
                     [dir_exists |-> dir_exists])
        /\ pc' = "download_get"

\* the body of download_file, called by the caller or by
\* download_file_by_relative_path
DownloadFileGet ==
    /\ pc = "download_get"
    /\ \E ans \in DownloadAnswers :
        LET d == download_file(locals.url, locals.output_path, ans, server.dir_exists)
        IN  /\ log' = log \o d.log
            /\ responses' = Append(responses, ans)
            /\ EndCall(d.out)
    /\ UNCHANGED <<op, args, self, locals, server>>

(***************************************************************************)
(* download_file_by_relative_path                                          *)
(***************************************************************************)
MetadataBodies ==
    { (DOWNLOAD_URL_KEY :> u) @@ ("name" :> "a") : u \in DownloadUrls }
    \cup { ("name" :> "a"), EmptyBody }
MetadataAnswers ==
    { Responded(200, b) : b \in MetadataBodies }
    \cup { Responded(st, ("error" :> ("message" :> "Invalid request"))) : st \in {404, 500} }
    \cup { Failed(t) : t \in TransportErrors }

download_file_by_relative_path_no_status(ans) ==
    LET r == request(ans)
        data == ans.body
    IN  IF ~r.ok THEN [next |-> "raise", out |-> r]
        ELSE IF DOWNLOAD_URL_KEY \notin DOMAIN data
        THEN [next |-> "raise", out |-> Raise("KeyError", "Download URL not found in response")]
        ELSE [next |-> "download_file", out |-> Return(data[DOWNLOAD_URL_KEY])]

\* the statements before the call of download_file: what they end with, or
\* the URL they hand to download_file
download_file_by_relative_path(ans) ==
    LET r == request(ans)
        st == IF r.ok THEN raise_for_status(ans) ELSE r
        data == ans.body
    IN  IF ~st.ok THEN [next |-> "raise", out |-> st]
        ELSE IF DOWNLOAD_URL_KEY \notin DOMAIN data
        THEN [next |-> "raise", out |-> Raise("KeyError", "Download URL not found in response")]
        ELSE [next |-> "download_file", out |-> Return(data[DOWNLOAD_URL_KEY])]

DownloadByPathCall ==
    \E p \in RemotePaths, local_path \in OutputPaths, dir_exists \in BOOLEAN :
        /\ BeginCall("download_file_by_relative_path", [remote_path |-> p, local_path |-> local_path],
                     <<>>, [dir_exists |-> dir_exists])
        /\ pc' = "download_metadata"

DownloadByPathMetadata ==
    /\ pc = "download_metadata"
    /\ \E ans \in MetadataAnswers :
        LET d == download_file_by_relative_path(ans)
        IN  /\ log' = Append(log, Request("GET",
                                          _build_graph_url(self["site_id"], args.remote_path, <<>>),
                                          [headers |-> self["headers"]]))
            /\ responses' = Append(responses, ans)
            /\ IF d.next = "download_file"
               THEN /\ locals' = [url |-> d.out.value, output_path |-> args.local_path]
                    /\ pc' = "download_get"
                    /\ UNCHANGED <<outcome, exc, result>>
               ELSE /\ EndCall(d.out)
                    /\ UNCHANGED locals
    /\ UNCHANGED <<op, args, self, server>>

(***************************************************************************)
(* download_filestream                                                     *)
(***************************************************************************)
\* requests.exceptions.RequestException and its subclasses
RequestExceptions == { "HTTPError" } \cup TransportErrors
StreamMetadataAnswers ==
    { Responded(200, (DOWNLOAD_URL_KEY :> u) @@ ("name" :> "a")) : u \in DownloadUrls }
    \cup { Responded(200, ("name" :> "a")) }
    \cup { Responded(st, ("error" :> ("message" :> "Invalid request"))) : st \in {404, 503} }
    \cup { Failed(t) : t \in TransportErrors }
StreamContentAnswers ==
    { Responded(200, "text"), Responded(404, "error page"), Responded(503, "busy") }
    \cup { Failed(t) : t \in TransportErrors }

\* pass i (from 0) of the for loop of _retry_request with the answer to its
\* request, and the statement after the loop when the pass is the last
_retry_request(ans, i) ==
    LET r == request(ans)
    IN  IF ~r.ok THEN [next |-> "raise", out |-> r]
        ELSE IF ans.status < 500 THEN [next |-> "return", out |-> Return(ans)]
        ELSE IF "time" \notin ModuleGlobals
        THEN [next |-> "raise", out |-> Raise("NameError", "name 'time' is not defined")]
        ELSE IF i + 1 < RetryCount THEN [next |-> "loop", out |-> Return(NoResult)]
        ELSE [next |-> "raise", out |-> raise_for_status(ans)]

\* _get_download_url after its _retry_request ended with r
_get_download_url(r) ==
    IF ~r.ok
    THEN IF r.exc.type \in RequestExceptions
         THEN Raise("TransactionError", <<"Error retrieving file metadata: ", r.exc.msg>>)
         ELSE r
    ELSE LET response_data == r.value.body
         IN  IF DOWNLOAD_URL_KEY \notin DOMAIN response_data
             THEN Raise("KeyError", DOWNLOAD_URL_KEY)
             ELSE IF ~is_valid_url(response_data[DOWNLOAD_URL_KEY])
             THEN Raise("TransactionError",
                        <<"Invalid download URL: ", response_data[DOWNLOAD_URL_KEY]>>)
             ELSE Return(response_data[DOWNLOAD_URL_KEY])

\* _download_to_stream after its _retry_request ended with r
_download_to_stream(r) ==
    IF ~r.ok
    THEN IF r.exc.type \in RequestExceptions
         THEN Raise("TransactionError", <<"Error downloading file: ", r.exc.msg>>)
         ELSE r
    ELSE Return([StringIO |-> r.value.body])

DownloadFilestreamCall ==
    \E p \in RemotePaths :
        /\ BeginCall("download_filestream", [remote_file_path |-> p],
                     [stage |-> "_get_download_url", attempt |-> 0,
                      url |-> _build_graph_url(self["site_id"], p, <<>>)],
                     <<>>)
        /\ pc' = "filestream_request"

\* one request of the _retry_request in progress, and what follows its end
\* in _get_download_url or _download_to_stream
DownloadFilestreamRequest ==
    /\ pc = "filestream_request"
    /\ LET meta == locals.stage = "_get_download_url"
       IN  \E ans \in (IF meta THEN StreamMetadataAnswers ELSE StreamContentAnswers) :
               LET r == _retry_request(ans, locals.attempt)
                   o == IF meta THEN _get_download_url(r.out) ELSE _download_to_stream(r.out)
               IN  /\ log' = Append(log, Request("GET", locals.url,
                                                 IF meta THEN [headers |-> self["headers"]]
                                                 ELSE [stream |-> TRUE]))
                   /\ responses' = Append(responses, ans)
                   /\ IF r.next = "loop"
                      THEN /\ locals' = [locals EXCEPT !.attempt = @ + 1]
                           /\ UNCHANGED <<pc, outcome, exc, result>>
                      ELSE IF meta /\ o.ok
                      THEN /\ locals' = [stage |-> "_download_to_stream", attempt |-> 0,
                                         url |-> o.value]
                           /\ UNCHANGED <<pc, outcome, exc, result>>
                      ELSE /\ EndCall(o)
                           /\ UNCHANGED locals
    /\ UNCHANGED <<op, args, self, server>>

(***************************************************************************)
(* list_files without a bound on the number of pages: the log and the      *)
(* responses keep the last request only, so that a listing that goes on    *)
(* for ever is a cycle of states.  The provider sends entries only while   *)
(* at most MaxPages of them are held.                                      *)
(***************************************************************************)
ListFilesPage ==
    /\ pc = "list_loop"
    /\ \E resp \in ListResponses :
        LET r == list_files_pass(locals, resp)
        IN  /\ r.next = "loop" => Len(r.locals["files"]) <= MaxPages
            /\ log' = << Event("GET", locals["url"]) >>
            /\ responses' = << resp >>
            /\ locals' = r.locals
            /\ pc' = IF r.next = "loop" THEN "list_loop" ELSE "done"
            /\ outcome' = CASE r.next = "loop" -> "none"
                            [] r.next = "return" -> "returned"
                            [] OTHER -> "raised"
            /\ exc' = r.out.exc
            /\ result' = r.out.value
    /\ UNCHANGED <<op, args, self, server>>

(***************************************************************************)
(* is_valid_url as an operation of its own: the URL is a scheme, '://', a  *)
(* host and what follows the host.                                         *)
(***************************************************************************)
UrlSchemes == { <<"h","t","t","p">>, <<"h","t","t","p","s">>, <<"f","t","p">>, <<>> }
UrlHosts ==
    { <<"s","h","a","r","e","p","o","i","n","t",".","c","o","m">>, <<"a",".","s","h","a","r","e","p","o","i","n","t",".","c","o","m">>, <<"x","s","h","a","r","e","p","o","i","n","t",".","c","o","m">>, <<"e","v","i","l",".","i","o">>,
      <<"s","h","a","r","e","p","o","i","n","t",".","c","o","m",".","e","v","i","l",".","i","o">>, <<>> }
UrlTails == { <<>>, <<"/","f">>, <<"?","s","h","a","r","e","p","o","i","n","t",".","c","o","m">>, <<"/","s","h","a","r","e","p","o","i","n","t",".","c","o","m">> }
UrlOf(a) == a.scheme \o <<":","/","/">> \o a.host \o a.tail

UrlInit ==
    /\ pc = "url_call"
    /\ op = "is_valid_url"
    /\ args \in [scheme : UrlSchemes, host : UrlHosts, tail : UrlTails]
    /\ self \in { Instance(<<"s">>, <<"d">>) }
    /\ locals = <<>>
    /\ server = <<>>
    /\ log = <<>>
    /\ responses = <<>>
    /\ outcome = "none"
    /\ exc = NoExc
    /\ result = NoResult

UrlApply ==
    /\ pc = "url_call"
    /\ pc' = "url_done"
    /\ outcome' = "returned"
    /\ result' = is_valid_url(UrlOf(args))
    /\ UNCHANGED <<op, args, self, locals, server, log, responses, exc>>

UrlNext == UrlApply

SpecUrl == UrlInit /\ [][UrlNext]_vars

Next ==
    \/ InitGetToken
    \/ InitConvert
    \/ InitGetSiteId
    \/ InitGetDocumentId
    \/ ListFilesCall
    \/ ListFilesGet
    \/ RetryRequestCall
    \/ RetryIteration
    \/ CallerContinues
    \/ DownloadFilestreamCall
    \/ DownloadFilestreamRequest
    \/ DownloadByPathCall
    \/ DownloadByPathMetadata
    \/ DownloadFileCall
    \/ DownloadFileGet
    \/ UploadFileCall
    \/ UploadFilePut
    \/ DeleteFileCall
    \/ DeleteFileRequest
    \/ MoveFileCall
    \/ MoveFilePatch

Spec == Init /\ [][Next]_vars

\* Every call of the network returns and the one thread of control goes on
\* to its next statement: a step that can be taken is taken.
LiveNext ==
    \/ InitGetToken
    \/ InitConvert
    \/ InitGetSiteId
    \/ InitGetDocumentId
    \/ ListFilesCall
    \/ ListFilesPage
    \/ RetryRequestCall
    \/ RetryIteration
    \/ CallerContinues
    \/ DownloadFilestreamCall
    \/ DownloadFilestreamRequest
    \/ DownloadByPathCall
    \/ DownloadByPathMetadata
    \/ DownloadFileCall
    \/ DownloadFileGet
    \/ UploadFileCall
    \/ UploadFilePut
    \/ DeleteFileCall
    \/ DeleteFileRequest
    \/ MoveFileCall
    \/ MoveFilePatch

SpecLive == Init /\ [][LiveNext]_vars /\ WF_vars(LiveNext)

(***************************************************************************)
(* Properties of the site URL conversion (under SpecConvert).              *)
(***************************************************************************)
HttpUrl == <<"h","t","t","p",":","/","/">> \o <<"h",".","i","o">> \o SitesSlash \o <<"a">>
HasHttpsPrefix(u) == \E n \in 0..Len(u) : SubSeq(u, 1, n) = HttpsPrefix
SitePaths == { p \in SegSeqs(MaxSegs) :
                 /\ Len(p) >= 2
                 /\ p[1] = <<"s","i","t","e","s">>
                 /\ \A i \in 1..Len(p) : p[i] # <<>> }

\* C7: for every site URL https://<host>/sites/<path...> with one or more
\* path segments, the conversion returns <host>:/sites/<path...>:/ with every
\* path segment kept, in order.
C7_EveryPathSegmentKept ==
    pc = "convert_done" =>
        \A h \in Hosts, p \in SitePaths :
            args.site_url = HttpsPrefix \o h \o PathOf(p) =>
                /\ outcome = "returned"
                /\ result = h \o <<":">> \o PathOf(p) \o ColonSlash

\* C8: a site URL that does not start with 'https://' always makes the
\* conversion raise ConnectionError, whatever the rest of the URL is, and no
\* compact reference is produced.
C8_NonHttpsRaisesConnectionError ==
    (pc = "convert_done" /\ ~HasHttpsPrefix(args.site_url)) =>
        /\ outcome = "raised"
        /\ exc = [type |-> "ConnectionError",
                  msg |-> "Invalid URL format. URL must start with 'https://'."]
        /\ result = NoResult

C8_Witness ==
    /\ pc = "convert_done"
    /\ args.site_url = HttpUrl
    /\ outcome = "raised"
    /\ exc.type = "ConnectionError"

(***************************************************************************)
(* Properties of construction (under Spec).                                *)
(***************************************************************************)
CtorSteps == << "_get_token", "_convert_site_url_to_graph_format",
                "_get_site_id", "_get_document_id" >>
IsStep(e) == \E i \in 1..Len(CtorSteps) : e.op = CtorSteps[i]
IsGet(e) == e.op = "GET"
StepsOf(l) == LET st == SelectSeq(l, IsStep) IN [i \in 1..Len(st) |-> st[i].op]
IsPrefix(a, b) == Len(a) <= Len(b) /\ a = SubSeq(b, 1, Len(a))
TokenMissing == Len(responses) >= 1 /\ "access_token" \notin DOMAIN responses[1]
SiteIdMissing == Len(responses) >= 2 /\ "id" \notin DOMAIN responses[2].body

\* C5: construction runs token acquisition, site-URL conversion, site-id
\* query, drive-id query in that order; when a step fails the constructor
\* raises, no later step runs (no site-id or drive-id request follows a
\* failed token acquisition or conversion) and the caller gets no instance.
C5_ConstructionAllOrNothing ==
    op = "__init__" =>
        LET steps == StepsOf(log)
            gets == SelectSeq(log, IsGet)
        IN  /\ IsPrefix(steps, CtorSteps)
            /\ (outcome = "raised") = (pc = "no_client")
            /\ pc = "no_client" => (result = NoResult /\ ~ENABLED Next)
            /\ TokenMissing => (pc = "no_client" /\ Len(steps) = 1 /\ gets = <<>>)
            /\ (Len(steps) >= 2 /\ ~HasHttpsPrefix(args.site_url)) =>
                   (pc = "no_client" /\ Len(steps) = 2 /\ gets = <<>>)
            /\ SiteIdMissing => (pc = "no_client" /\ Len(steps) = 3 /\ Len(gets) = 1)
            /\ pc = "done" =>
                   /\ steps = CtorSteps
                   /\ Len(gets) = 2
                   /\ outcome = "returned"
                   /\ result = "self"
                   /\ DOMAIN self = {"access_token", "headers", "site_url", "site_id", "documents_id"}

C5_Witness ==
    /\ op = "__init__"
    /\ pc = "no_client"
    /\ args.site_url = HttpUrl
    /\ StepsOf(log) = SubSeq(CtorSteps, 1, 2)
    /\ exc.type = "ConnectionError"

\* C6: when the identity provider's answer to the client-credentials
\* exchange has no access-token field, construction fails with SecurityError
\* 'Access token not found, please check your credentials', and with no
\* other kind of error.
C6_MissingTokenIsSecurityError ==
    (op = "__init__" /\ TokenMissing) =>
        /\ pc = "no_client"
        /\ outcome = "raised"
        /\ exc = [type |-> "SecurityError",
                  msg |-> "Access token not found, please check your credentials"]

C6_Witness ==
    /\ op = "__init__"
    /\ TokenMissing
    /\ exc.type = "SecurityError"

\* C9: when the body of the answer to GET sites/{site-id}/drive/ holds an
\* 'error' object, _get_document_id raises ConnectionError with exactly the
\* provider's error.message, whatever the HTTP status; otherwise it returns
\* the body's 'id' unchanged.
C9_DriveIdErrorOrId ==
    (op = "__init__" /\ Len(responses) = 3) =>
        LET b == responses[3].body
        IN  /\ ("error" \in DOMAIN b /\ "message" \in DOMAIN b["error"]) =>
                   /\ pc = "no_client"
                   /\ outcome = "raised"
                   /\ exc = [type |-> "ConnectionError", msg |-> b["error"]["message"]]
            /\ ("error" \notin DOMAIN b /\ "id" \in DOMAIN b) =>
                   /\ pc = "done"
                   /\ outcome = "returned"
                   /\ self["documents_id"] = b["id"]

C9_Witness ==
    /\ op = "__init__"
    /\ Len(responses) = 3
    /\ responses[3].status = 200
    /\ "error" \in DOMAIN responses[3].body
    /\ exc = [type |-> "ConnectionError", msg |-> "Access denied"]

\* C10: when GET sites/{compact-ref} answers an error payload or a body
\* without an 'id' field, construction fails with ConnectionError, as it does
\* for the drive-id query.
C10_SiteIdFailureIsConnectionError ==
    (op = "__init__" /\ Len(responses) >= 2
        /\ ("error" \in DOMAIN responses[2].body \/ "id" \notin DOMAIN responses[2].body)) =>
        /\ pc = "no_client"
        /\ outcome = "raised"
        /\ exc.type = "ConnectionError"

(***************************************************************************)
(* Properties of list_files (under Spec).                                  *)
(***************************************************************************)
Is2xx(resp) == 200 <= resp.status /\ resp.status <= 299
HasLink(resp) == "@odata.nextLink" \in DOMAIN resp.body
ValueOf(resp) == IF "value" \in DOMAIN resp.body THEN resp.body["value"] ELSE <<>>
IsChain(rs) ==
    /\ Len(rs) >= 1
    /\ \A i \in 1..Len(rs) : Is2xx(rs[i]) /\ (HasLink(rs[i]) <=> i < Len(rs))
\* the children URL of the folder "/D/x/" in the drive of the instance
ChildrenUrlOfDx ==
    GRAPH_BASE_URL \o DrivesSlash \o self["documents_id"]
        \o <<"/","r","o","o","t",":","/","D","/","x",":","/","c","h","i","l","d","r","e","n">>

\* C1: for every chain of 2xx pages p1..pn of which all but the last carry
\* an '@odata.nextLink', list_files makes exactly n GET requests (the first
\* to the folder's children URL, each later one to the previous page's link)
\* and returns value(p1) ++ ... ++ value(pn), in page order and in the order
\* within each page, nothing dropped or duplicated.
C1_ListFilesDrainsPagination ==
    (op = "list_files" /\ IsChain(responses)) =>
        /\ pc = "done"
        /\ outcome = "returned"
        /\ result = Join([i \in 1..Len(responses) |-> ValueOf(responses[i])])
        /\ Len(log) = Len(responses)
        /\ log[1] = Event("GET", ChildrenUrlOfDx)
        /\ \A i \in 2..Len(log) :
               log[i] = Event("GET", responses[i - 1].body["@odata.nextLink"])

C1_Witness ==
    /\ op = "list_files"
    /\ pc = "done"
    /\ Len(responses) = 3
    /\ IsChain(responses)
    /\ Len(ValueOf(responses[1])) = 2
    /\ Len(ValueOf(responses[3])) = 2
    /\ responses[1].body["@odata.nextLink"] # responses[2].body["@odata.nextLink"]
    /\ Len(result) >= 4

C3_RetryUntilSuccess ==
    (op = "_retry_request" /\ pc = "done") =>
        /\ server = <<500, 500, 200>> =>
               (outcome = "returned" /\ result.status = 200 /\ Len(log) = 3)
        /\ server[1] = 404 =>
               (outcome = "returned" /\ result.status = 404 /\ Len(log) = 1)

\* C4: for every sequence of statuses, _retry_request makes at most 3
\* requests, makes a further request only after a 5xx response, returns the
\* first response that is not 5xx without a further request, and raises an
\* HTTP error when all 3 responses are 5xx.
C4_RetryBounded ==
    (op = "_retry_request" /\ pc = "done") =>
        LET n == Len(log)
            good == { i \in 1..RetryCount : server[i] \notin 500..599 }
        IN  /\ n <= 3
            /\ \A i \in 2..n : responses[i - 1].status \in 500..599
            /\ good # {} =>
                   LET k == CHOOSE i \in good : \A j \in good : i <= j
                   IN  outcome = "returned" /\ result.status = server[k] /\ n = k
            /\ good = {} => (outcome = "raised" /\ exc.type = "HTTPError" /\ n = 3)

(***************************************************************************)
(* Properties of the URLs built from a path (under SpecPath).              *)
(***************************************************************************)
\* C12: the URL built from a relative path, by _build_graph_url with or
\* without the 'content' action and by list_files, is the URL built from the
\* path without its leading and trailing '/', however many there are.
C12_PathNormalization ==
    pc = "path_done" =>
        \A c \in PathCores, k \in 0..MaxSlashes, m \in 0..MaxSlashes :
            args.remote_path = Slashes(k) \o c \o Slashes(m) =>
                /\ result.url =
                       GRAPH_BASE_URL \o SitesSlash \o self["site_id"] \o DriveRootColon \o c
                           \o (IF args.action = Content
                               THEN <<":","/","c","o","n","t","e","n","t">> ELSE <<>>)
                /\ result.children =
                       GRAPH_BASE_URL \o DrivesSlash \o self["documents_id"] \o RootColon \o c
                           \o ColonChildren

C12_Witness ==
    /\ pc = "path_done"
    /\ args.remote_path = <<"/","D","/","x","/">>
    /\ args.action = Content
    /\ result.url = GRAPH_BASE_URL \o SitesSlash \o self["site_id"]
           \o <<"/","d","r","i","v","e","/","r","o","o","t",":","/","D","/","x",":","/","c","o","n","t","e","n","t">>

(***************************************************************************)
(* Properties of move_file.                                                *)
(***************************************************************************)
SourceUrlOfDa(site_id) ==
    GRAPH_BASE_URL \o SitesSlash \o site_id \o <<"/","d","r","i","v","e","/","r","o","o","t",":","/","D","/","a">>
ExpectedPayload(documents_id, parent, name) ==
    [parentReference |->
         [path |-> <<"d","r","i","v","e","s","/">> \o documents_id \o <<"/","r","o","o","t",":","/">> \o parent],
     name |-> name]

\* C13: for a destination <parent>/<name>, the payload is exactly
\* {parentReference: {path: 'drives/{driveId}/root:/<parent>'}, name: '<name>'}
\* and move_file sends it in one PATCH to the URL of the source path, with
\* the session's headers.
C13_MovePayload ==
    (op = "move_file" /\ pc \in {"move_patch", "done"}) =>
        \A p \in MoveParents, n \in MoveNames :
            args.remote_des_path = p \o <<"/">> \o n =>
                /\ locals.payload = ExpectedPayload(self["documents_id"], p, n)
                /\ pc = "done" =>
                       log = << Request("PATCH", SourceUrlOfDa(self["site_id"]),
                                        [headers |-> self["headers"], stream |-> TRUE,
                                         json |-> ExpectedPayload(self["documents_id"], p, n)]) >>

C13_Witness ==
    /\ op = "move_file"
    /\ pc = "done"
    /\ args.remote_des_path = <<"D","/","F","/","t",".","x">>
    /\ self["documents_id"] = <<"d">>
    /\ Len(log) = 1
    /\ log[1].op = "PATCH"
    /\ log[1].kw.json.name = <<"t",".","x">>
    /\ log[1].kw.json.parentReference.path =
           <<"d","r","i","v","e","s","/","d","/","r","o","o","t",":","/","D","/","F">>

IsErrorStatus(a) == a.raised = "none" /\ 400 <= a.status /\ a.status < 600
IsSuccess(a) == a.raised = "none" /\ 200 <= a.status /\ a.status < 300

\* C14: every failure of the PATCH, a non-2xx status as well as a failure to
\* connect or a timeout, ends move_file with TransactionError.
C14_EveryTransportFailureWrapped ==
    (op = "move_file" /\ pc = "done" /\ ~IsSuccess(responses[1])) =>
        (outcome = "raised" /\ exc.type = "TransactionError")

\* What the except clause of move_file covers: a 4xx or 5xx answer to the
\* PATCH ends move_file with TransactionError 'Error moving file: <cause>',
\* the cause being the HTTPError of raise_for_status; an exception raised by
\* the request itself (no connection, timeout) leaves move_file as it is, and
\* a 2xx answer returns None.
MoveFileHandlesHTTPErrorOnly ==
    (op = "move_file" /\ pc = "done") =>
        LET a == responses[1]
        IN  /\ Len(log) = 1
            /\ IsErrorStatus(a) =>
                   /\ outcome = "raised"
                   /\ exc.type = "TransactionError"
                   /\ exc.msg = << "Error moving file: ",
                                   IF a.status < 500 THEN "Client Error" ELSE "Server Error" >>
            /\ a.raised # "none" => (outcome = "raised" /\ exc.type = a.raised)
            /\ IsSuccess(a) => (outcome = "returned" /\ result = "None")

MoveFileWrapsClientError ==
    /\ op = "move_file"
    /\ pc = "done"
    /\ responses[1].raised = "none"
    /\ responses[1].status = 404
    /\ outcome = "raised"
    /\ exc = [type |-> "TransactionError", msg |-> <<"Error moving file: ", "Client Error">>]

(***************************************************************************)
(* Properties of delete_file_by_relative_path.                             *)
(***************************************************************************)
\* C15: delete_file_by_relative_path issues exactly one DELETE on the URL of
\* the path; a 2xx answer returns None, and every other end of the request
\* (non-2xx status, no connection, timeout) raises TransactionError.
C15_DeleteWrapsEveryFailure ==
    (op = "delete_file_by_relative_path" /\ pc = "done") =>
        /\ log = << Request("DELETE", SourceUrlOfDa(self["site_id"]), [headers |-> self["headers"]]) >>
        /\ IsSuccess(responses[1]) => (outcome = "returned" /\ result = "None")
        /\ ~IsSuccess(responses[1]) => (outcome = "raised" /\ exc.type = "TransactionError")

\* What the except clause of delete_file_by_relative_path covers: one DELETE,
\* None on 2xx, TransactionError 'Error deleting file: <cause>' on 4xx/5xx,
\* and the exception of the request itself when no response arrives.
DeleteHandlesHTTPErrorOnly ==
    (op = "delete_file_by_relative_path" /\ pc = "done") =>
        LET a == responses[1]
        IN  /\ log = << Request("DELETE", SourceUrlOfDa(self["site_id"]), [headers |-> self["headers"]]) >>
            /\ IsSuccess(a) => (outcome = "returned" /\ result = "None")
            /\ IsErrorStatus(a) =>
                   /\ outcome = "raised"
                   /\ exc = [type |-> "TransactionError",
                             msg |-> << "Error deleting file: ",
                                        IF a.status < 500 THEN "Client Error" ELSE "Server Error" >>]
            /\ a.raised # "none" => (outcome = "raised" /\ exc.type = a.raised)

DeleteEscapesUnwrapped ==
    /\ op = "delete_file_by_relative_path"
    /\ pc = "done"
    /\ responses[1].raised = "requests.Timeout"
    /\ exc.type = "requests.Timeout"

(***************************************************************************)
(* Properties of upload_file_by_relative_path.                             *)
(***************************************************************************)
IsPut(e) == e.op = "PUT"
ContentUrlOfDa(site_id) ==
    GRAPH_BASE_URL \o SitesSlash \o site_id
        \o <<"/","d","r","i","v","e","/","r","o","o","t",":","/","D","/","a",":","/","c","o","n","t","e","n","t">>

IsLocalCall(e) == e.op \in {"exists", "makedirs", "open", "write"}
IsWrite(e) == e.op = "write"
AbsoluteOf(output_path) == IF output_path = <<"o">> THEN <<"/","w","/","o">> ELSE output_path
DirectoryOf(output_path) == IF output_path = <<"o">> THEN <<"/","w">> ELSE <<"/","t">>
WrittenOf(body) ==
    CASE body = <<"c1">> -> <<"c1">>
      [] body = <<"c1", "", "c2">> -> <<"c1", "c2">>
      [] body = <<"", "c1">> -> <<"c1">>
      [] OTHER -> <<>>

DownloadFileWritesChunks ==
    /\ op = "download_file"
    /\ pc = "done"
    /\ outcome = "returned"
    /\ responses[1].body = <<"c1", "", "c2">>
    /\ args.output_path = <<"o">>
    /\ log = << Request("GET", args.url, [stream |-> TRUE]),
                FsCall("exists", <<"/","w">>), FsCall("makedirs", <<"/","w">>), Open(<<"/","w","/","o">>, "wb"),
                Write(<<"/","w","/","o">>, "c1"), Write(<<"/","w","/","o">>, "c2") >>

(***************************************************************************)
(* Properties of download_file_by_relative_path.                           *)
(***************************************************************************)
HasDownloadUrl(a) == IsSuccess(a) /\ "@microsoft.graph.downloadUrl" \in DOMAIN a.body
IsOpen(e) == e.op = "open"

C18_ContentGetOnlyToValidUrl ==
    op = "download_file_by_relative_path" =>
        \A i \in 2..Len(log) : log[i].op = "GET" => is_valid_url(log[i].url)

(***************************************************************************)
(* Properties of all public operations.                                    *)
(***************************************************************************)
PublicOperations ==
    { "list_files", "upload_file_by_relative_path", "move_file", "delete_file_by_relative_path",
      "download_file", "download_file_by_relative_path", "download_filestream" }
HasErrorStatus(a) == 400 <= a.status /\ a.status < 600

\* C20: when a request of a public operation was answered 4xx or 5xx, the
\* operation ends by raising, never by returning a result.
C20_NoFailureSwallowed ==
    (op \in PublicOperations /\ pc = "done") =>
        ((\E i \in 1..Len(responses) : HasErrorStatus(responses[i])) => outcome = "raised")

\* The same for every public operation but download_filestream.
NoFailureSwallowedButByFilestream ==
    (op \in PublicOperations \ {"download_filestream"} /\ pc = "done") =>
        ((\E i \in 1..Len(responses) : HasErrorStatus(responses[i])) => outcome = "raised")

\* download_filestream returning the body of a 404 answer as the file
FilestreamReturnsErrorPage ==
    /\ op = "download_filestream"
    /\ pc = "done"
    /\ outcome = "returned"
    /\ responses[2].status = 404
    /\ result = [StringIO |-> "error page"]

(***************************************************************************)
(* Properties of the session across operations.                            *)
(***************************************************************************)
SessionAttributes == { "access_token", "headers", "site_url", "site_id", "documents_id" }
ConstructedSession ==
    /\ DOMAIN self = SessionAttributes
    /\ self["headers"] = ("Authorization" :> (<<"B","e","a","r","e","r"," ">> \o self["access_token"]))
ConstructionCalls == { "_get_token", "acquire_token_for_client", "_get_site_id", "_get_document_id" }
ConstructionUrls ==
    { AuthorityBase \o Tenant,
      GRAPH_BASE_URL \o <<"/","s","i","t","e","s","/">> \o self["site_url"],
      GRAPH_BASE_URL \o <<"/","s","i","t","e","s","/">> \o self["site_id"] \o <<"/","d","r","i","v","e","/">>,
      GRAPH_BASE_URL \o <<"/","s","i","t","e","s","/">> \o self["site_id"] \o <<"/","d","r","i","v","e">> }
NoConstructionCall ==
    \A i \in 1..Len(log) : log[i].op \notin ConstructionCalls /\ log[i].url \notin ConstructionUrls

\* C11: once construction has succeeded, no step of any operation changes
\* the stored token, headers, site reference, site id or drive id, and no
\* public operation calls the token exchange, the site-id query or the
\* drive-id query.
C11_SessionIdentityImmutable ==
    /\ [][op # "__init__" => self' = self]_vars
    /\ [](op \in PublicOperations => (ConstructedSession /\ NoConstructionCall))

C11_Witness ==
    /\ op = "delete_file_by_relative_path"
    /\ pc = "done"
    /\ outcome = "raised"
    /\ ConstructedSession
    /\ self["access_token"] = <<"k">>
    /\ self["site_id"] = <<"s">>
    /\ self["documents_id"] = <<"e">>

(***************************************************************************)
(* Termination (under SpecLive).                                           *)
(***************************************************************************)
InOperation(ops) == op \in ops /\ pc # "done"

\* C21: every public operation that has been called ends, by return or by
\* raise, whatever the provider answers.
C21_EveryOperationTerminates ==
    InOperation(PublicOperations \cup {"_retry_request"}) ~> (pc = "done")

\* The same for every operation but list_files.
EveryOperationButListFilesTerminates ==
    InOperation((PublicOperations \cup {"_retry_request"}) \ {"list_files"}) ~> (pc = "done")

\* list_files asking for a page whose link it has followed before
ListFilesRevisitsPage ==
    /\ op = "list_files"
    /\ pc = "list_loop"
    /\ Len(responses) = 1
    /\ "@odata.nextLink" \in DOMAIN responses[1].body
    /\ log[1].url = responses[1].body["@odata.nextLink"]

(***************************************************************************)
(* Properties of is_valid_url (under SpecUrl).                             *)
(***************************************************************************)
TrustedHost(h) ==
    \/ h = <<"s","h","a","r","e","p","o","i","n","t",".","c","o","m">>
    \/ \E n \in 1..Len(h) : SubSeq(h, n, Len(h)) = <<".","s","h","a","r","e","p","o","i","n","t",".","c","o","m">>

\* C22: is_valid_url returns True only for a URL whose scheme is http or
\* https and whose host is sharepoint.com or a subdomain of it.
C22_ValidOnlyForTrustedHost ==
    (pc = "url_done" /\ result = TRUE) =>
        (args.scheme \in { <<"h","t","t","p">>, <<"h","t","t","p","s">> } /\ TrustedHost(args.host))

\* What is_valid_url does ensure: the scheme is http or https and the text
\* of the host ends with 'sharepoint.com'.
ValidOnlyForTrustedSuffix ==
    (pc = "url_done" /\ result = TRUE) =>
        /\ args.scheme \in { <<"h","t","t","p">>, <<"h","t","t","p","s">> }
        /\ \E n \in 1..Len(args.host) : SubSeq(args.host, n, Len(args.host)) = <<"s","h","a","r","e","p","o","i","n","t",".","c","o","m">>

\* is_valid_url accepting a host that only ends with the letters of the domain
LookalikeHostAccepted ==
    /\ pc = "url_done"
    /\ args.host = <<"x","s","h","a","r","e","p","o","i","n","t",".","c","o","m">>
    /\ result = TRUE

\* download_filestream sending the content request to such a host
FilestreamFetchesLookalikeHost ==
    /\ op = "download_filestream"
    /\ Len(log) = 2
    /\ log[2].op = "GET"
    /\ log[2].url = <<"h","t","t","p","s",":","/","/","x","s","h","a","r","e","p","o","i","n","t",".","c","o","m","/","f">>

====
